---- MODULE Spec2Model ----
(***************************************************************************)
(* A model of elodie/localstorage.py: class Db, the cache of checksums,    *)
(* perceptual hashes and named locations that Elodie keeps in three files  *)
(* of its application directory.                                           *)
(*                                                                         *)
(* The in-memory dictionaries hash_db and phash_db are functions whose     *)
(* domain is the set of stored keys; location_db is a sequence of records. *)
(* A file is a record [kind, body]: kind "absent" (no such file), "empty"  *)
(* (zero bytes), "garbage" (bytes that neither json nor pickle can parse), *)
(* "json" (body: the sequence of members or elements of the JSON text) or  *)
(* "pickle" (body: the pickled object).  The value a call returns, or the  *)
(* exception it raises, is left in ret, and the name of the call in op.    *)
(***************************************************************************)
EXTENDS Integers, Sequences, FiniteSets, TLC

\* ------------------------------------------------------------------------
\* Bounds of the model
\* ------------------------------------------------------------------------
MaxLoc == 3          \* longest location_db explored
MaxTime == 1         \* last second of the wall clock explored
MaxFile == 3         \* longest file checksum is computed of, in bytes
MaxBlock == 4        \* largest blocksize checksum is called with

KeySeq == <<"k1", "k2">>            \* the keys, in the order files list them
Keys == {KeySeq[i] : i \in 1..Len(KeySeq)}
Vals == {"v1", "v2"}                \* values of hash_db (paths)
PVals == {"p1", "p2"}               \* values of phash_db (image hashes)
Names == {"A", "B"}                 \* place names
\* Coordinates are whole thousandths of a degree, around 60 N 0 E, where a
\* thousandth of a degree is 111 m of latitude and 56 m of longitude.
Lats == {60000, 60001}              \* latitudes asked for
PlaceLats == {60000}                \* latitudes of the places stored
Lons == {0, 1, 2}                   \* longitudes
Thresholds == {0, 150}              \* threshold_m, in metres

\* ------------------------------------------------------------------------
\* Values
\* ------------------------------------------------------------------------
EmptyDict == [k \in {} |-> "v1"]

None == [kind |-> "none", val |-> "None"]
Str(s) == [kind |-> "str", val |-> s]
Bool(b) == [kind |-> "bool", val |-> b]
Coords(la, lo) == [kind |-> "coords", val |-> <<la, lo>>]
Items(s) == [kind |-> "items", val |-> s]
Raise(e) == [kind |-> "raise", val |-> e]

Absent == [kind |-> "absent", body |-> <<>>]
EmptyFile == [kind |-> "empty", body |-> <<>>]
Garbage == [kind |-> "garbage", body |-> <<>>]

\* A dict that keeps the value a key already has
DictSet_KeepFirst(d, key, value) ==
    [k \in (DOMAIN d) \cup {key} |-> IF k \in DOMAIN d THEN d[k] ELSE value]

\* self.hash_db[key] = value
DictSet(d, key, value) ==
    [k \in (DOMAIN d) \cup {key} |-> IF k = key THEN value ELSE d[k]]

\* ------------------------------------------------------------------------
\* json and pickle
\* ------------------------------------------------------------------------
\* json.dump of a dict: one member <<key, value>> per key of the dict.
RECURSIVE DumpMembers(_, _)
DumpMembers(d, i) ==
    IF i > Len(KeySeq) THEN <<>>
    ELSE IF KeySeq[i] \in DOMAIN d
         THEN << <<KeySeq[i], d[KeySeq[i]]>> >> \o DumpMembers(d, i + 1)
         ELSE DumpMembers(d, i + 1)

JsonDumpDict(d) == [kind |-> "json", body |-> DumpMembers(d, 1)]

\* json.dump of a list: its elements in order.
JsonDumpList(l) == [kind |-> "json", body |-> l]

\* json.load raises ValueError on an empty or unparsable text.
JsonRaises(f) == f.kind # "json"

\* json.load of an object: members are stored left to right, so that the
\* last member of a repeated key wins.
RECURSIVE LoadMembers(_, _)
LoadMembers(ms, d) ==
    IF ms = <<>> THEN d
    ELSE LoadMembers(Tail(ms), DictSet(d, Head(ms)[1], Head(ms)[2]))

JsonLoadDict(f) == LoadMembers(f.body, EmptyDict)

JsonLoadList(f) == f.body

PickleDump(d) == [kind |-> "pickle", body |-> d]

\* pickle.load raises UnpicklingError on bytes that are not a pickle.
PickleRaises(f) == f.kind # "pickle"

PickleLoad(f) == f.body

\* os.path.getsize(path) == 0
SizeIsZero(f) == f.kind = "empty"

\* open(path, 'a') on a file that does not exist creates it empty.
Touch(f) == IF f.kind = "absent" THEN EmptyFile ELSE f

\* ------------------------------------------------------------------------
\* State
\* ------------------------------------------------------------------------
VARIABLES
    appDir,        \* TRUE when constants.application_directory exists
    hashFile,      \* the file constants.hash_db
    phashFile,     \* the file constants.phash_db
    locFile,       \* the file constants.location_db
    backups,       \* the backup files, by name <<original, timestamp>>
    now,           \* the wall clock, in seconds
    status,        \* "none": no Db yet, "ready": a Db, "failed": Db() raised
    hash_db,       \* self.hash_db
    phash_db,      \* self.phash_db
    location_db,   \* self.location_db
    op,            \* the name of the last call
    args,          \* its arguments
    ret,           \* what it returned or raised
    replaced,      \* history: what add_hash or add_phash found under the key
    sum,           \* the call of checksum in progress
    other,         \* a second Db on the same directory
    persist        \* the update_hash_db in progress, when followed step by step

disk == <<appDir, hashFile, phashFile, locFile, backups>>
memory == <<hash_db, phash_db, location_db>>
vars == <<appDir, hashFile, phashFile, locFile, backups, now, status,
          hash_db, phash_db, location_db, op, args, ret, replaced,
          sum, other, persist>>

\* What the calls on the first Db, taken as a whole, leave alone
rest == <<sum, other, persist>>

BackupNames == {"hash", "phash"} \X (0..MaxTime)
NoBackups == [n \in BackupNames |-> Absent]

\* Directory contents a Db may be constructed on: nothing at all, an empty
\* directory, empty files, files written by an earlier run, a hand-edited
\* checksum file that repeats a key, and files with unparsable content.
HashFull == JsonDumpDict([k \in {"k1"} |-> "v1"])
HashDup == [kind |-> "json", body |-> << <<"k1", "v1">>, <<"k1", "v2">> >>]
PhashFull == PickleDump([k \in {"k2"} |-> "p1"])
LocFull == JsonDumpList(<< [lat |-> 60000, long |-> 1, name |-> "A"] >>)

\* No checksum is being computed, no second Db exists, no write is under way
NoSum == [pc |-> "idle", content |-> <<>>, blocksize |-> 1, pos |-> 0,
          buf |-> <<>>, hasher |-> 0, fed |-> <<>>, digest |-> 0]
NoOther == [status |-> "none", hash_db |-> EmptyDict, phash_db |-> EmptyDict,
            seen |-> Absent, overwrote |-> Absent]
NoPersist == [pc |-> "idle", i |-> 0, oldHash |-> Absent, oldPhash |-> Absent]

Dir(d, h, p, l) == [dir |-> d, hash |-> h, phash |-> p, loc |-> l]

\* The directories the checksum store is explored on
InitDisks ==
    { Dir(TRUE, Absent, Absent, LocFull),
      Dir(TRUE, HashFull, PhashFull, LocFull),
      Dir(TRUE, HashDup, EmptyFile, LocFull),
      Dir(TRUE, HashFull, Garbage, LocFull) }

\* Every directory: each file absent, empty, unparsable or well-formed
AnyDisks ==
    {Dir(FALSE, Absent, Absent, Absent)} \cup
    { Dir(TRUE, h, p, l) :
        h \in {Absent, EmptyFile, Garbage, HashFull, HashDup},
        p \in {Absent, EmptyFile, Garbage, PhashFull},
        l \in {Absent, EmptyFile, Garbage, LocFull} }

InitOn(disks) ==
    /\ \E d \in disks :
        /\ appDir = d.dir
        /\ hashFile = d.hash
        /\ phashFile = d.phash
        /\ locFile = d.loc
    /\ backups = NoBackups
    /\ now = 0
    /\ status = "none"
    /\ hash_db = EmptyDict
    /\ phash_db = EmptyDict
    /\ location_db = <<>>
    /\ op = "none"
    /\ args = <<>>
    /\ ret = None
    /\ replaced = None
    /\ sum = NoSum
    /\ other = NoOther
    /\ persist = NoPersist

Init == InitOn(InitDisks)

\* ------------------------------------------------------------------------
\* Db.__init__
\* ------------------------------------------------------------------------
\* self.hash_db after "try: self.hash_db = json.load(f) except ValueError"
LoadHashDb(f) == IF JsonRaises(f) THEN EmptyDict ELSE JsonLoadDict(f)

\* self.location_db after the same on constants.location_db
LoadLocationDb(f) == IF JsonRaises(f) THEN <<>> ELSE JsonLoadList(f)

\* The phash file is unpickled unless its size is 0; no exception is caught.
PhashLoadRaises(f) == ~SizeIsZero(f) /\ PickleRaises(f)

LoadPhashDb(f) ==
    IF SizeIsZero(f) \/ PickleRaises(f) THEN EmptyDict ELSE PickleLoad(f)

Construct ==
    /\ appDir' = TRUE
    /\ hashFile' = Touch(hashFile)
    /\ locFile' = Touch(locFile)
    /\ phashFile' = Touch(phashFile)
    /\ hash_db' = LoadHashDb(hashFile')
    /\ location_db' = LoadLocationDb(locFile')
    /\ phash_db' = LoadPhashDb(phashFile')
    /\ IF PhashLoadRaises(phashFile')
       THEN status' = "failed" /\ ret' = Raise("UnpicklingError")
       ELSE status' = "ready" /\ ret' = None
    /\ op' = "__init__"
    /\ UNCHANGED rest
    /\ args' = <<>>
    /\ replaced' = None
    /\ UNCHANGED <<backups, now>>

\* ------------------------------------------------------------------------
\* The checksum and phash dictionaries
\* ------------------------------------------------------------------------
\* What update_hash_db leaves in constants.hash_db and constants.phash_db
WrittenHashFile(h) == JsonDumpDict(h)
\* The phash dict written as text
WrittenPhashFile_Json(p) == JsonDumpDict(p)

WrittenPhashFile(p) == PickleDump(p)

\* An update_hash_db that does not write a dict that is empty
update_hash_db_SkipEmpty ==
    /\ status = "ready"
    /\ hashFile' = IF hash_db = EmptyDict THEN hashFile
                                          ELSE WrittenHashFile(hash_db)
    /\ phashFile' = IF phash_db = EmptyDict THEN phashFile
                                            ELSE WrittenPhashFile(phash_db)
    /\ op' = "update_hash_db"
    /\ UNCHANGED rest
    /\ args' = <<>>
    /\ replaced' = None
    /\ ret' = None
    /\ UNCHANGED <<appDir, locFile, backups, now, status, memory>>

update_hash_db ==
    /\ status = "ready"
    /\ hashFile' = WrittenHashFile(hash_db)
    /\ phashFile' = WrittenPhashFile(phash_db)
    /\ op' = "update_hash_db"
    /\ UNCHANGED rest
    /\ args' = <<>>
    /\ replaced' = None
    /\ ret' = None
    /\ UNCHANGED <<appDir, locFile, backups, now, status, memory>>

\* "key in self.hash_db"
check_hash(key) == key \in DOMAIN hash_db
check_phash(key) == key \in DOMAIN phash_db

\* A subscript of a key the dict does not hold raises KeyError.
Subscript(d, key) == IF key \in DOMAIN d THEN Str(d[key]) ELSE Raise("KeyError")

\* A lookup that subscripts without asking check_hash
get_hash_NoCheck(key) == Subscript(hash_db, key)

get_hash(key) == IF check_hash(key) THEN Subscript(hash_db, key) ELSE None
get_phash(key) == IF check_phash(key) THEN Subscript(phash_db, key) ELSE None

\* An add_hash that writes the files before it stores the value
add_hash_WriteFirst(key, value, write) ==
    /\ status = "ready"
    /\ hash_db' = DictSet(hash_db, key, value)
    /\ IF write
       THEN /\ hashFile' = WrittenHashFile(hash_db)
            /\ phashFile' = WrittenPhashFile(phash_db)
       ELSE UNCHANGED <<hashFile, phashFile>>
    /\ op' = "add_hash"
    /\ UNCHANGED rest
    /\ args' = <<key, value, write>>
    /\ replaced' = get_hash(key)
    /\ ret' = None
    /\ UNCHANGED <<appDir, locFile, backups, now, status, phash_db,
                   location_db>>

add_hash(key, value, write) ==
    /\ status = "ready"
    /\ hash_db' = DictSet(hash_db, key, value)
    /\ IF write
       THEN /\ hashFile' = WrittenHashFile(hash_db')
            /\ phashFile' = WrittenPhashFile(phash_db)
       ELSE UNCHANGED <<hashFile, phashFile>>
    /\ op' = "add_hash"
    /\ UNCHANGED rest
    /\ args' = <<key, value, write>>
    /\ replaced' = get_hash(key)
    /\ ret' = None
    /\ UNCHANGED <<appDir, locFile, backups, now, status, phash_db,
                   location_db>>

add_phash(key, value, write) ==
    /\ status = "ready"
    /\ phash_db' = DictSet(phash_db, key, value)
    /\ IF write
       THEN /\ hashFile' = WrittenHashFile(hash_db)
            /\ phashFile' = WrittenPhashFile(phash_db')
       ELSE UNCHANGED <<hashFile, phashFile>>
    /\ op' = "add_phash"
    /\ UNCHANGED rest
    /\ args' = <<key, value, write>>
    /\ replaced' = get_phash(key)
    /\ ret' = None
    /\ UNCHANGED <<appDir, locFile, backups, now, status, hash_db,
                   location_db>>

\* A reset that forgets the phash dict
reset_hash_db_OnlyHash ==
    /\ status = "ready"
    /\ hash_db' = EmptyDict
    /\ op' = "reset_hash_db"
    /\ UNCHANGED rest
    /\ args' = <<>>
    /\ replaced' = None
    /\ ret' = None
    /\ UNCHANGED <<disk, now, status, phash_db, location_db>>

reset_hash_db ==
    /\ status = "ready"
    /\ hash_db' = EmptyDict
    /\ phash_db' = EmptyDict
    /\ op' = "reset_hash_db"
    /\ UNCHANGED rest
    /\ args' = <<>>
    /\ replaced' = None
    /\ ret' = None
    /\ UNCHANGED <<disk, now, status, location_db>>

\* The pairs the generator all() yields, as a set: the order in which a dict
\* is iterated is not modelled.
all == {<<k, hash_db[k]>> : k \in DOMAIN hash_db}

\* A call that only computes a value from the Db
Lookup(name, arguments, value) ==
    /\ status = "ready"
    /\ op' = name
    /\ UNCHANGED rest
    /\ args' = arguments
    /\ replaced' = None
    /\ ret' = value
    /\ UNCHANGED <<disk, now, status, memory>>

Call_check_hash ==
    \E k \in Keys : Lookup("check_hash", <<k>>, Bool(check_hash(k)))
Call_check_phash ==
    \E k \in Keys : Lookup("check_phash", <<k>>, Bool(check_phash(k)))
Call_get_hash == \E k \in Keys : Lookup("get_hash", <<k>>, get_hash(k))
Call_get_phash == \E k \in Keys : Lookup("get_phash", <<k>>, get_phash(k))
Call_all == Lookup("all", <<>>, Items(all))

Call_add_hash == \E k \in Keys, v \in Vals, w \in BOOLEAN : add_hash(k, v, w)
Call_add_phash == \E k \in Keys, v \in PVals, w \in BOOLEAN : add_phash(k, v, w)

\* ------------------------------------------------------------------------
\* The location list
\* ------------------------------------------------------------------------
\* An update_location_db that writes the two dicts with the list
update_location_db_All ==
    /\ status = "ready"
    /\ locFile' = JsonDumpList(location_db)
    /\ hashFile' = WrittenHashFile(hash_db)
    /\ phashFile' = WrittenPhashFile(phash_db)
    /\ op' = "update_location_db"
    /\ UNCHANGED rest
    /\ args' = <<>>
    /\ replaced' = None
    /\ ret' = None
    /\ UNCHANGED <<appDir, backups, now, status, memory>>

update_location_db ==
    /\ status = "ready"
    /\ locFile' = JsonDumpList(location_db)
    /\ op' = "update_location_db"
    /\ UNCHANGED rest
    /\ args' = <<>>
    /\ replaced' = None
    /\ ret' = None
    /\ UNCHANGED <<appDir, hashFile, phashFile, backups, now, status, memory>>

\* An add_location that leaves out a record the list already holds
add_location_Dedup(latitude, longitude, place, write) ==
    LET data == [lat |-> latitude, long |-> longitude, name |-> place]
        found == \E i \in 1..Len(location_db) : location_db[i] = data
    IN  /\ status = "ready"
        /\ Len(location_db) < MaxLoc
        /\ location_db' = IF found THEN location_db
                                   ELSE Append(location_db, data)
        /\ IF write
           THEN locFile' = JsonDumpList(location_db')
           ELSE UNCHANGED locFile
        /\ op' = "add_location"
        /\ UNCHANGED rest
        /\ args' = <<latitude, longitude, place, write>>
        /\ replaced' = None
        /\ ret' = None
        /\ UNCHANGED <<appDir, hashFile, phashFile, backups, now, status,
                       hash_db, phash_db>>

add_location(latitude, longitude, place, write) ==
    /\ status = "ready"
    /\ Len(location_db) < MaxLoc
    /\ location_db' = Append(location_db,
            [lat |-> latitude, long |-> longitude, name |-> place])
    /\ IF write
       THEN locFile' = JsonDumpList(location_db')
       ELSE UNCHANGED locFile
    /\ op' = "add_location"
    /\ UNCHANGED rest
    /\ args' = <<latitude, longitude, place, write>>
    /\ replaced' = None
    /\ ret' = None
    /\ UNCHANGED <<appDir, hashFile, phashFile, backups, now, status,
                   hash_db, phash_db>>

\* The largest integer of the model; it stands for sys.maxsize, which like
\* it is larger than every distance on the earth.
MaxSize == 2147483647

\* r * pi / 180, with r = 6371000: the metres of one degree of a great
\* circle, which is also the millimetres of a thousandth of a degree.
MetresPerDegree == 111195

RECURSIVE SqrtBetween(_, _, _)
SqrtBetween(n, lo, hi) ==
    IF lo = hi THEN lo
    ELSE LET mid == (lo + hi + 1) \div 2
         IN  IF mid * mid <= n THEN SqrtBetween(n, mid, hi)
                               ELSE SqrtBetween(n, lo, mid - 1)

\* sqrt, rounded down
Sqrt(n) == SqrtBetween(n, 0, 46340)

\* 1000 * cos(0.5 * (lat2 + lat1)) for a sum of latitudes in thousandths
\* of a degree, by Bhaskara's formula on the whole degrees a of the mean:
\* cos(a) = (32400 - 4 a^2) / (32400 + a^2).
Cos1000(latSum) ==
    LET a == latSum \div 2000
    IN  (1000 * (32400 - 4 * a * a)) \div (32400 + a * a)

\* d of get_location_name, in millimetres: x and y are in millionths of a
\* degree instead of radians, and r is applied as MetresPerDegree.
ComputeDistance(latitude, longitude, dataLat, dataLong) ==
    LET x == (dataLong - longitude) * Cos1000(dataLat + latitude)
        y == (dataLat - latitude) * 1000
    IN  (MetresPerDegree * Sqrt(x * x + y * y)) \div 1000

\* The distances between the points of the model, computed once
Distances ==
    [q \in Lats \X Lons \X PlaceLats \X Lons |->
        ComputeDistance(q[1], q[2], q[3], q[4])]

Distance(latitude, longitude, dataLat, dataLong) ==
    Distances[<<latitude, longitude, dataLat, dataLong>>]

\* A comparison that leaves out a place exactly threshold_m away
Matches_Strict(d, threshold_m, last_d) == d < threshold_m * 1000 /\ d < last_d

\* "d <= threshold_m and d < last_d", d and last_d in millimetres
Matches(d, threshold_m, last_d) == d <= threshold_m * 1000 /\ d < last_d

\* The loop of get_location_name from record i on
RECURSIVE ScanNames(_, _, _, _, _, _, _)
ScanNames(db, i, latitude, longitude, threshold_m, last_d, name) ==
    IF i > Len(db) THEN name
    ELSE LET d == Distance(latitude, longitude, db[i].lat, db[i].long)
         IN  ScanNames(db, i + 1, latitude, longitude, threshold_m, d,
                       IF Matches(d, threshold_m, last_d)
                       THEN Str(db[i].name) ELSE name)

get_location_name(latitude, longitude, threshold_m) ==
    ScanNames(location_db, 1, latitude, longitude, threshold_m, MaxSize, None)

\* A loop that goes on after a match and so returns the last one
RECURSIVE ScanCoordinates_Last(_, _, _, _)
ScanCoordinates_Last(db, i, name, found) ==
    IF i > Len(db) THEN found
    ELSE ScanCoordinates_Last(db, i + 1, name,
            IF db[i].name = name THEN Coords(db[i].lat, db[i].long)
                                 ELSE found)

ScanCoordinates_NoReturn(db, i, name) == ScanCoordinates_Last(db, i, name, None)

\* The loop of get_location_coordinates from record i on
RECURSIVE ScanCoordinates(_, _, _)
ScanCoordinates(db, i, name) ==
    IF i > Len(db) THEN None
    ELSE IF db[i].name = name THEN Coords(db[i].lat, db[i].long)
    ELSE ScanCoordinates(db, i + 1, name)

get_location_coordinates(name) == ScanCoordinates(location_db, 1, name)

Call_add_location ==
    \E la \in PlaceLats, lo \in Lons, n \in Names, w \in BOOLEAN :
        add_location(la, lo, n, w)

Call_get_location_name ==
    \E la \in Lats, lo \in Lons, t \in Thresholds :
        Lookup("get_location_name", <<la, lo, t>>, get_location_name(la, lo, t))

\* "nowhere" is a name no place has
Call_get_location_coordinates ==
    \E n \in Names \cup {"nowhere"} :
        Lookup("get_location_coordinates", <<n>>, get_location_coordinates(n))

\* ------------------------------------------------------------------------
\* Backups
\* ------------------------------------------------------------------------
\* os.path.isfile(path)
IsFile(f) == f.kind # "absent"

\* The name '%s-%s' % (original, strftime('%Y-%m-%d_%H-%M-%S')) at second t
BackupName(original, t) == <<original, t>>
FileName(n) == [kind |-> "name", val |-> n]

\* A copy that creates dst and writes nothing to it
CopyFile_Truncate(files, src, dst) == [files EXCEPT ![dst] = EmptyFile]

\* copyfile(src, dst): dst is created or overwritten with the bytes of src
CopyFile(files, src, dst) == [files EXCEPT ![dst] = src]

\* strftime is called once for each file: the second call may fall in the
\* next second (t2).  hash_backup_file_name is bound only if the checksum
\* file exists.
backup_hash_db ==
    /\ status = "ready"
    /\ \E t2 \in {now, now + 1} \cap (0..MaxTime) :
        LET afterHash == IF IsFile(hashFile)
                         THEN CopyFile(backups, hashFile,
                                       BackupName("hash", now))
                         ELSE backups
        IN  /\ backups' = IF IsFile(phashFile)
                          THEN CopyFile(afterHash, phashFile,
                                        BackupName("phash", t2))
                          ELSE afterHash
            /\ now' = t2
    /\ ret' = IF IsFile(hashFile) THEN FileName(BackupName("hash", now))
                                  ELSE Raise("UnboundLocalError")
    /\ op' = "backup_hash_db"
    /\ UNCHANGED rest
    /\ args' = <<>>
    /\ replaced' = None
    /\ UNCHANGED <<appDir, hashFile, phashFile, locFile, status, memory>>

\* A second passes
Tick ==
    /\ now < MaxTime
    /\ now' = now + 1
    /\ op' = "tick"
    /\ UNCHANGED rest
    /\ args' = <<>>
    /\ UNCHANGED <<disk, status, memory, ret, replaced>>

\* ------------------------------------------------------------------------
\* checksum: the file is read and hashed block by block
\* ------------------------------------------------------------------------
Bytes == {0, 1}
Contents == UNION { [1..n -> Bytes] : n \in 0..MaxFile }
BlockSizes == 1..MaxBlock

\* The hasher is a state that takes the bytes one after the other; its
\* digest is a function of the state.
HashStart == 7
HashBase == 31
HashModulus == 1000003

RECURSIVE update_Restart(_, _)
\* An update that starts from a new hasher
update_Restart(h, block) ==
    IF block = <<>> THEN HashStart
    ELSE (update_Restart(h, SubSeq(block, 1, Len(block) - 1)) * HashBase
            + block[Len(block)] + 1) % HashModulus

RECURSIVE update(_, _)
update(h, block) ==
    IF block = <<>> THEN h
    ELSE (update(h, SubSeq(block, 1, Len(block) - 1)) * HashBase
            + block[Len(block)] + 1) % HashModulus

hexdigest(h) == h

\* The digest of a byte string hashed at once
Sha256(content) == hexdigest(update(HashStart, content))

\* f.read(n) at position pos: the next n bytes, fewer at the end of the file
read(content, pos, n) ==
    SubSeq(content, pos + 1,
           IF pos + n < Len(content) THEN pos + n ELSE Len(content))

\* hasher = hashlib.sha256(); open; buf = f.read(blocksize)
checksum_open(content, blocksize) ==
    /\ sum.pc \in {"idle", "done"}
    /\ LET first == read(content, 0, blocksize)
       IN  sum' = [pc |-> "test", content |-> content,
                   blocksize |-> blocksize, pos |-> Len(first),
                   buf |-> first, hasher |-> HashStart, fed |-> <<>>,
                   digest |-> 0]
    /\ op' = "checksum"
    /\ UNCHANGED <<disk, now, status, memory, args, ret, replaced, other,
                   persist>>

\* One turn of the loop: len(buf) > 0, hasher.update(buf), the next read
checksum_loop ==
    /\ sum.pc = "test"
    /\ Len(sum.buf) > 0
    /\ LET next == read(sum.content, sum.pos, sum.blocksize)
       IN  sum' = [sum EXCEPT !.hasher = update(sum.hasher, sum.buf),
                              !.fed = sum.fed \o sum.buf,
                              !.buf = next,
                              !.pos = sum.pos + Len(next)]
    /\ op' = "checksum"
    /\ UNCHANGED <<disk, now, status, memory, args, ret, replaced, other,
                   persist>>

\* len(buf) = 0: return hasher.hexdigest()
checksum_return ==
    /\ sum.pc = "test"
    /\ Len(sum.buf) = 0
    /\ sum' = [sum EXCEPT !.pc = "done", !.digest = hexdigest(sum.hasher)]
    /\ op' = "checksum"
    /\ UNCHANGED <<disk, now, status, memory, args, ret, replaced, other,
                   persist>>

\* ------------------------------------------------------------------------
\* A second Db on the same directory.  It has its own two dicts; other.seen
\* is the checksum file as it was loaded, other.overwrote the checksum file
\* as it was before the second Db last wrote it.
\* ------------------------------------------------------------------------
other_Construct ==
    /\ appDir' = TRUE
    /\ hashFile' = Touch(hashFile)
    /\ locFile' = Touch(locFile)
    /\ phashFile' = Touch(phashFile)
    /\ other' = [status |-> IF PhashLoadRaises(phashFile') THEN "failed"
                                                           ELSE "ready",
                 hash_db |-> LoadHashDb(hashFile'),
                 phash_db |-> LoadPhashDb(phashFile'),
                 seen |-> hashFile',
                 overwrote |-> Absent]
    /\ op' = "other.__init__"
    /\ args' = <<>>
    /\ UNCHANGED <<backups, now, status, memory, ret, replaced, sum, persist>>

\* An update_hash_db that writes what the file holds with what the Db holds
other_update_hash_db_Merge ==
    /\ other.status = "ready"
    /\ hashFile' = WrittenHashFile(
            [k \in DOMAIN LoadHashDb(hashFile) \cup DOMAIN other.hash_db |->
                IF k \in DOMAIN other.hash_db THEN other.hash_db[k]
                                              ELSE LoadHashDb(hashFile)[k]])
    /\ phashFile' = WrittenPhashFile(other.phash_db)
    /\ other' = [other EXCEPT !.overwrote = hashFile]
    /\ op' = "other.update_hash_db"
    /\ args' = <<>>
    /\ UNCHANGED <<appDir, locFile, backups, now, status, memory, ret,
                   replaced, sum, persist>>

other_update_hash_db ==
    /\ other.status = "ready"
    /\ hashFile' = WrittenHashFile(other.hash_db)
    /\ phashFile' = WrittenPhashFile(other.phash_db)
    /\ other' = [other EXCEPT !.overwrote = hashFile]
    /\ op' = "other.update_hash_db"
    /\ args' = <<>>
    /\ UNCHANGED <<appDir, locFile, backups, now, status, memory, ret,
                   replaced, sum, persist>>

other_add_hash(key, value, write) ==
    /\ other.status = "ready"
    /\ IF write
       THEN /\ other' = [other EXCEPT
                            !.hash_db = DictSet(other.hash_db, key, value),
                            !.overwrote = hashFile]
            /\ hashFile' = WrittenHashFile(other'.hash_db)
            /\ phashFile' = WrittenPhashFile(other'.phash_db)
       ELSE /\ other' = [other EXCEPT
                            !.hash_db = DictSet(other.hash_db, key, value)]
            /\ UNCHANGED <<hashFile, phashFile>>
    /\ op' = "other.add_hash"
    /\ args' = <<key, value, write>>
    /\ UNCHANGED <<appDir, locFile, backups, now, status, memory, ret,
                   replaced, sum, persist>>

\* ------------------------------------------------------------------------
\* update_hash_db statement by statement, and the process stopping inside
\* it.  persist.i is the place in WriteOrder of the file being written;
\* persist.oldHash and persist.oldPhash are the files as update_hash_db
\* found them.
\* ------------------------------------------------------------------------
\* The phash file written before the checksum file
WriteOrder_PhashFirst == <<"phash", "hash">>

WriteOrder == <<"hash", "phash">>

\* No update_hash_db is under way
Outside == persist.pc \in {"idle", "done", "stopped"}

\* The file named which becomes content, the other stays
SetFile(which, content) ==
    /\ hashFile' = IF which = "hash" THEN content ELSE hashFile
    /\ phashFile' = IF which = "phash" THEN content ELSE phashFile

\* What update_hash_db dumps into the file named which
Written(which) ==
    IF which = "hash" THEN WrittenHashFile(hash_db)
                      ELSE WrittenPhashFile(phash_db)

\* open(..., 'w') or open(..., 'wb'): the file is there and empty
persist_open ==
    /\ status = "ready"
    /\ \/ /\ Outside
          /\ persist' = [pc |-> "opened", i |-> 1, oldHash |-> hashFile,
                         oldPhash |-> phashFile]
       \/ /\ persist.pc = "closed"
          /\ persist' = [persist EXCEPT !.pc = "opened", !.i = persist.i + 1]
    /\ SetFile(WriteOrder[persist'.i], EmptyFile)
    /\ op' = "persist"
    /\ args' = <<>>
    /\ UNCHANGED <<appDir, locFile, backups, now, status, memory, ret,
                   replaced, sum, other>>

\* A part of what is dumped reaches the file
persist_part ==
    /\ persist.pc = "opened"
    /\ SetFile(WriteOrder[persist.i], Garbage)
    /\ op' = "persist"
    /\ UNCHANGED <<appDir, locFile, backups, now, status, memory, args, ret,
                   replaced, sum, other, persist>>

\* The dump is complete and the file closed
persist_dump ==
    /\ persist.pc = "opened"
    /\ SetFile(WriteOrder[persist.i], Written(WriteOrder[persist.i]))
    /\ persist' = [persist EXCEPT
                     !.pc = IF persist.i = Len(WriteOrder) THEN "done"
                                                           ELSE "closed"]
    /\ op' = "persist"
    /\ UNCHANGED <<appDir, locFile, backups, now, status, memory, args, ret,
                   replaced, sum, other>>

\* The process stops inside update_hash_db; the files stay as they are
Crash ==
    /\ persist.pc \in {"opened", "closed"}
    /\ persist' = [persist EXCEPT !.pc = "stopped"]
    /\ status' = "none"
    /\ op' = "crash"
    /\ UNCHANGED <<disk, now, memory, args, ret, replaced, sum, other>>

\* ------------------------------------------------------------------------
\* Specification of the checksum and phash store
\* ------------------------------------------------------------------------
Next ==
    \/ Construct
    \/ Call_add_hash
    \/ Call_add_phash
    \/ Call_check_hash
    \/ Call_check_phash
    \/ Call_get_hash
    \/ Call_get_phash
    \/ Call_all
    \/ reset_hash_db
    \/ update_hash_db

Spec == Init /\ [][Next]_vars

\* ------------------------------------------------------------------------
\* Specification of the location store, with the lookups of the other two
\* ------------------------------------------------------------------------
LocDisks == { Dir(TRUE, HashFull, PhashFull, Absent) }

InitLoc == InitOn(LocDisks)

NextLoc ==
    \/ Construct
    \/ Call_add_location
    \/ update_location_db
    \/ Call_get_location_name
    \/ Call_get_location_coordinates
    \/ Call_get_hash
    \/ Call_get_phash

SpecLoc == InitLoc /\ [][NextLoc]_vars

\* ------------------------------------------------------------------------
\* Specification of the backups: one checksum and one phash are rewritten,
\* persisted and backed up while the clock runs
\* ------------------------------------------------------------------------
InitBackup == InitOn(LocDisks)

Rewrite_hash == \E v \in Vals, w \in BOOLEAN : add_hash("k1", v, w)
Rewrite_phash == \E v \in PVals, w \in BOOLEAN : add_phash("k2", v, w)

NextBackup ==
    \/ Construct
    \/ Rewrite_hash
    \/ Rewrite_phash
    \/ update_hash_db
    \/ backup_hash_db
    \/ Tick

SpecBackup == InitBackup /\ [][NextBackup]_vars

\* ------------------------------------------------------------------------
\* Specification of construction: a Db is constructed on any directory
\* ------------------------------------------------------------------------
InitLoad == InitOn(AnyDisks)

NextLoad ==
    \/ Construct
    \/ Call_get_hash
    \/ Call_get_phash
    \/ Call_get_location_coordinates

SpecLoad == InitLoad /\ [][NextLoad]_vars

\* ------------------------------------------------------------------------
\* Specification of the whole store: the three collections are changed,
\* reset and persisted side by side, on one checksum, one phash and the
\* places of one name
\* ------------------------------------------------------------------------
InitStore == InitOn(LocDisks)

Add_place ==
    \E la \in PlaceLats, lo \in {0, 1}, w \in BOOLEAN :
        add_location(la, lo, "A", w)

NextStore ==
    \/ Construct
    \/ Rewrite_hash
    \/ Rewrite_phash
    \/ reset_hash_db
    \/ update_hash_db
    \/ Add_place
    \/ update_location_db

SpecStore == InitStore /\ [][NextStore]_vars

\* ------------------------------------------------------------------------
\* Specification of checksum: files of up to MaxFile bytes are hashed in
\* blocks of up to MaxBlock bytes.  A call that has begun goes on: the
\* loop and the return are statements of one thread.
\* ------------------------------------------------------------------------
InitSum == InitOn(LocDisks)

Call_checksum == \E c \in Contents, b \in BlockSizes : checksum_open(c, b)

NextSum ==
    \/ Call_checksum
    \/ checksum_loop
    \/ checksum_return

SpecSum ==
    /\ InitSum
    /\ [][NextSum]_vars
    /\ WF_vars(checksum_loop)
    /\ WF_vars(checksum_return)

\* ------------------------------------------------------------------------
\* Specification of two Dbs on one directory: the first adds checksums
\* under k1, the second under k2, each writes when it likes.
\* ------------------------------------------------------------------------
TwoDisks ==
    { Dir(FALSE, Absent, Absent, Absent),
      Dir(TRUE, HashFull, PhashFull, LocFull) }

InitTwo == InitOn(TwoDisks)

other_Rewrite_hash == \E v \in Vals, w \in BOOLEAN : other_add_hash("k2", v, w)

NextTwo ==
    \/ Construct
    \/ Rewrite_hash
    \/ update_hash_db
    \/ other_Construct
    \/ other_Rewrite_hash
    \/ other_update_hash_db

SpecTwo == InitTwo /\ [][NextTwo]_vars

\* ------------------------------------------------------------------------
\* Specification of a write that may stop: the dicts are changed and
\* reset in memory, update_hash_db runs statement by statement, the process
\* may stop inside it and a Db be constructed anew.
\* ------------------------------------------------------------------------
InitCrash == InitOn(LocDisks)

Restart == Outside /\ Construct

Change_hash == Outside /\ \E v \in Vals : add_hash("k1", v, FALSE)

Change_phash == Outside /\ \E v \in PVals : add_phash("k2", v, FALSE)

Reset == Outside /\ reset_hash_db

NextCrash ==
    \/ Restart
    \/ Change_hash
    \/ Change_phash
    \/ Reset
    \/ persist_open
    \/ persist_part
    \/ persist_dump
    \/ Crash

SpecCrash == InitCrash /\ [][NextCrash]_vars

\* ========================================================================
\* Properties
\* ========================================================================

\* C1: get_location_name returns the name of a record at the smallest
\* distance among the records within threshold_m of the query, whatever the
\* order of the list.
C1_TrueMinimum ==
    op = "get_location_name" =>
        LET dist(i) == Distance(args[1], args[2],
                                location_db[i].lat, location_db[i].long)
            near == {i \in 1..Len(location_db) : dist(i) <= args[3] * 1000}
        IN  near # {} =>
                /\ ret.kind = "str"
                /\ \E i \in near :
                    /\ location_db[i].name = ret.val
                    /\ \A j \in near : dist(i) <= dist(j)

\* C2: a Db constructed right after update_hash_db holds the hash_db and the
\* phash_db that the Db which wrote the files held.
C2_RoundTrip ==
    [][(op = "update_hash_db" /\ op' = "__init__") =>
            /\ status' = "ready"
            /\ hash_db' = hash_db
            /\ phash_db' = phash_db]_vars

\* A Db constructed from files that hold more than any initial directory
\* does: both keys in both dicts
C2_Witness ==
    /\ op = "__init__"
    /\ status = "ready"
    /\ DOMAIN hash_db = Keys
    /\ DOMAIN phash_db = Keys
    /\ hashFile = JsonDumpDict(hash_db)
    /\ phashFile = PickleDump(phash_db)

\* C3: add_hash and add_phash with write=True leave in the two files exactly
\* the two dicts as they are after the call; with write=False they leave
\* every file as it was.
C3_FlushContract ==
    [][(op' \in {"add_hash", "add_phash"}) =>
            IF args'[3]
            THEN /\ hashFile' = JsonDumpDict(hash_db')
                 /\ phashFile' = PickleDump(phash_db')
            ELSE disk' = disk]_vars

\* add_phash with write=True has also written a checksum that no file held
\* before: the files of the initial directories hold k1 only
C3_Witness ==
    /\ op = "add_phash"
    /\ args[3]
    /\ DOMAIN hash_db = Keys
    /\ hashFile = JsonDumpDict(hash_db)
    /\ phashFile = PickleDump(phash_db)

\* C4: whatever the three files hold, Db() raises nothing; a dict or list
\* whose file is empty or unparsable starts empty, and the others are
\* loaded from their files.
C4_LoadTolerance ==
    op = "__init__" =>
        /\ status = "ready"
        /\ ret = None
        /\ hash_db = IF hashFile.kind = "json" THEN JsonLoadDict(hashFile)
                                               ELSE EmptyDict
        /\ location_db = IF locFile.kind = "json" THEN JsonLoadList(locFile)
                                                  ELSE <<>>
        /\ phash_db = IF phashFile.kind = "pickle" THEN PickleLoad(phashFile)
                                                   ELSE EmptyDict

\* C5: add_hash(k, v) and add_phash(k, v) leave v under k, once, and every
\* other key as it was, whether or not k had a value.
C5_LastWriteWins ==
    [][/\ op' = "add_hash" =>
            /\ args'[1] \in DOMAIN hash_db'
            /\ hash_db'[args'[1]] = args'[2]
            /\ Cardinality({m \in {<<k, hash_db'[k]>> : k \in DOMAIN hash_db'} :
                                m[1] = args'[1]}) = 1
            /\ DOMAIN hash_db' = DOMAIN hash_db \cup {args'[1]}
            /\ \A k \in DOMAIN hash_db \ {args'[1]} : hash_db'[k] = hash_db[k]
       /\ op' = "add_phash" =>
            /\ args'[1] \in DOMAIN phash_db'
            /\ phash_db'[args'[1]] = args'[2]
            /\ DOMAIN phash_db' = DOMAIN phash_db \cup {args'[1]}
            /\ \A k \in DOMAIN phash_db \ {args'[1]} :
                    phash_db'[k] = phash_db[k]]_vars

\* add_hash has replaced a different value of its key, next to another key
C5_Witness ==
    /\ op = "add_hash"
    /\ replaced.kind = "str"
    /\ replaced.val # args[2]
    /\ hash_db[args[1]] = args[2]
    /\ DOMAIN hash_db = Keys

\* C6: reset_hash_db leaves both dicts empty (all() yields nothing and no
\* key is found) and leaves location_db and every file as they were.
C6_ResetInMemory ==
    [][op' = "reset_hash_db" =>
            /\ {<<k, hash_db'[k]>> : k \in DOMAIN hash_db'} = {}
            /\ \A k \in Keys : k \notin DOMAIN hash_db'
            /\ \A k \in Keys : k \notin DOMAIN phash_db'
            /\ location_db' = location_db
            /\ disk' = disk]_vars

\* After a reset the dicts are empty while the files still hold entries and
\* the location list its record
C6_Witness ==
    /\ op = "reset_hash_db"
    /\ hash_db = EmptyDict
    /\ phash_db = EmptyDict
    /\ hashFile.kind = "json" /\ Len(hashFile.body) = 2
    /\ phashFile.kind = "pickle" /\ DOMAIN phashFile.body = Keys
    /\ location_db # <<>>

\* C7: get_location_name returns None exactly when no record is within
\* threshold_m of the query (an empty list included).
C7_NoneIffNothingNear ==
    op = "get_location_name" =>
        LET near == {i \in 1..Len(location_db) :
                        Distance(args[1], args[2], location_db[i].lat,
                                 location_db[i].long) <= args[3] * 1000}
        IN  (ret = None) <=> (near = {})

\* A query that found nothing among several places, the nearest of them
\* beyond the threshold
C7_Witness ==
    /\ op = "get_location_name"
    /\ ret = None
    /\ Len(location_db) >= 2
    /\ args[3] > 0

\* C8: get_location_coordinates returns the coordinates of the first record
\* of the list that has the name, and None when no record has it.
C8_FirstOfName ==
    op = "get_location_coordinates" =>
        LET hits == {i \in 1..Len(location_db) :
                        location_db[i].name = args[1]}
        IN  IF hits = {} THEN ret = None
            ELSE LET first == CHOOSE i \in hits : \A j \in hits : i <= j
                 IN  ret = Coords(location_db[first].lat,
                                  location_db[first].long)

\* The name asked for is that of two records at different places, and the
\* coordinates returned are those of the earlier one
C8_Witness ==
    /\ op = "get_location_coordinates"
    /\ \E i, j \in 1..Len(location_db) :
        /\ i < j
        /\ location_db[i].name = args[1]
        /\ location_db[j].name = args[1]
        /\ location_db[i].long # location_db[j].long
        /\ \A h \in 1..(i - 1) : location_db[h].name # args[1]
        /\ ret = Coords(location_db[i].lat, location_db[i].long)

\* C9 as stated: backup_hash_db creates two files that did not exist, with
\* the content of the checksum file and of the phash file, returns the name
\* of the first, and changes neither the two files nor the Db.
C9_BackupCreatesNewFiles ==
    [][op' = "backup_hash_db" =>
            /\ \E th, tp \in 0..MaxTime :
                /\ backups[BackupName("hash", th)] = Absent
                /\ backups[BackupName("phash", tp)] = Absent
                /\ backups'[BackupName("hash", th)] = hashFile
                /\ backups'[BackupName("phash", tp)] = phashFile
                /\ ret' = FileName(BackupName("hash", th))
                /\ \A n \in BackupNames \ {BackupName("hash", th),
                                            BackupName("phash", tp)} :
                        backups'[n] = backups[n]
            /\ <<hashFile, phashFile, locFile>>' = <<hashFile, phashFile, locFile>>
            /\ memory' = memory]_vars

\* C9 amended: the two files are created, or overwritten when a backup of
\* the same second exists.
C9_BackupCopiesFiles ==
    [][op' = "backup_hash_db" =>
            /\ \E th, tp \in 0..MaxTime :
                /\ backups'[BackupName("hash", th)] = hashFile
                /\ backups'[BackupName("phash", tp)] = phashFile
                /\ ret' = FileName(BackupName("hash", th))
                /\ \A n \in BackupNames \ {BackupName("hash", th),
                                            BackupName("phash", tp)} :
                        backups'[n] = backups[n]
            /\ <<hashFile, phashFile, locFile>>' = <<hashFile, phashFile, locFile>>
            /\ memory' = memory]_vars

\* A backup taken while both dicts differ from their files: the backups
\* hold what the files hold
C9_Witness ==
    /\ op = "backup_hash_db"
    /\ ret.kind = "name"
    /\ backups[ret.val] = hashFile
    /\ hashFile # JsonDumpDict(hash_db)
    /\ phashFile # PickleDump(phash_db)
    /\ \E t \in 0..MaxTime : backups[BackupName("phash", t)] = phashFile

\* C10: get_hash and get_phash return the value of a key the dict holds and
\* None for any other key; these and the two location lookups raise nothing
\* and change neither the Db nor a file.
C10_LookupsTotal ==
    [][(op' \in {"get_hash", "get_phash", "get_location_name",
                 "get_location_coordinates"}) =>
            /\ ret'.kind # "raise"
            /\ memory' = memory
            /\ disk' = disk
            /\ op' = "get_hash" =>
                    ret' = IF args'[1] \in DOMAIN hash_db
                           THEN Str(hash_db[args'[1]]) ELSE None
            /\ op' = "get_phash" =>
                    ret' = IF args'[1] \in DOMAIN phash_db
                           THEN Str(phash_db[args'[1]]) ELSE None]_vars

\* A lookup of a key that a dict with other keys does not hold
C10_Witness ==
    /\ op = "get_hash"
    /\ ret = None
    /\ hash_db # EmptyDict
    /\ args[1] \notin DOMAIN hash_db

\* C11: add_location appends exactly the record of its arguments, also when
\* the list holds an equal record, and no call on a Db takes a record away
\* or changes one: the list before a call is a prefix of the list after it.
C11_AppendOnly ==
    [][/\ op' = "add_location" =>
            location_db' = Append(location_db,
                [lat |-> args'[1], long |-> args'[2], name |-> args'[3]])
       /\ op' # "__init__" =>
            /\ Len(location_db) <= Len(location_db')
            /\ SubSeq(location_db', 1, Len(location_db)) = location_db]_vars

\* add_location has appended a record equal to one the list already held
C11_Witness ==
    /\ op = "add_location"
    /\ Len(location_db) >= 2
    /\ \E i \in 1..(Len(location_db) - 1) :
            location_db[i] = location_db[Len(location_db)]

\* C12 as stated: update_hash_db, and add_hash or add_phash with write=True,
\* leave in the two files the two dicts and nothing else; when the call
\* before was reset_hash_db, a Db constructed from the files holds none of
\* the keys the files held.
C12_NoOldKeyAfterReset ==
    [][(op' = "update_hash_db" \/
        (op' \in {"add_hash", "add_phash"} /\ args'[3])) =>
            /\ hashFile' = JsonDumpDict(hash_db')
            /\ phashFile' = PickleDump(phash_db')
            /\ op = "reset_hash_db" =>
                /\ DOMAIN LoadHashDb(hashFile') \cap
                        DOMAIN LoadHashDb(hashFile) = {}
                /\ DOMAIN LoadPhashDb(phashFile') \cap
                        DOMAIN LoadPhashDb(phashFile) = {}]_vars

\* C12 amended: after reset_hash_db and add_hash or add_phash with
\* write=True, the key just added is the one key the files may still hold.
C12_FullOverwrite ==
    [][(op' = "update_hash_db" \/
        (op' \in {"add_hash", "add_phash"} /\ args'[3])) =>
            /\ hashFile' = JsonDumpDict(hash_db')
            /\ phashFile' = PickleDump(phash_db')
            /\ op = "reset_hash_db" =>
                /\ DOMAIN LoadHashDb(hashFile') \cap
                        DOMAIN LoadHashDb(hashFile)
                    \subseteq (IF op' = "add_hash" THEN {args'[1]} ELSE {})
                /\ DOMAIN LoadPhashDb(phashFile') \cap
                        DOMAIN LoadPhashDb(phashFile)
                    \subseteq (IF op' = "add_phash" THEN {args'[1]}
                                                    ELSE {})]_vars

\* A Db constructed from files that held a checksum and a phash, after a
\* reset and a write: both dicts are empty
C12_Witness ==
    /\ op = "__init__"
    /\ status = "ready"
    /\ hash_db = EmptyDict
    /\ phash_db = EmptyDict
    /\ hashFile = JsonDumpDict(EmptyDict)
    /\ phashFile = PickleDump(EmptyDict)

\* C13: Db() creates the directory and each of the three files, empty, where
\* they are missing and leaves every file that exists as it is; it yields a
\* Db whose dicts and list are loaded each from its own file; Db() once more
\* on the directory as it was left changes no file and yields the same
\* three.
C13_ConstructIdempotent ==
    [][op' = "__init__" =>
        /\ appDir'
        /\ hashFile' = Touch(hashFile) /\ hashFile'.kind # "absent"
        /\ phashFile' = Touch(phashFile) /\ phashFile'.kind # "absent"
        /\ locFile' = Touch(locFile) /\ locFile'.kind # "absent"
        /\ status' = "ready"
        /\ hash_db' = LoadHashDb(hashFile')
        /\ phash_db' = LoadPhashDb(phashFile')
        /\ location_db' = LoadLocationDb(locFile')
        /\ op = "__init__" => disk' = disk /\ memory' = memory]_vars

\* C14: add_location and update_location_db change neither dict nor the
\* checksum or phash file; add_hash, add_phash, reset_hash_db and
\* update_hash_db change neither the location list nor its file;
\* add_location with write=True leaves the list in the location file, with
\* write=False leaves the file as it was.
C14_Independence ==
    [][/\ op' \in {"add_location", "update_location_db"} =>
            /\ hash_db' = hash_db /\ phash_db' = phash_db
            /\ hashFile' = hashFile /\ phashFile' = phashFile
       /\ op' \in {"add_hash", "add_phash", "reset_hash_db",
                   "update_hash_db"} =>
            /\ location_db' = location_db
            /\ locFile' = locFile
       /\ op' = "add_location" =>
            IF args'[4] THEN locFile' = JsonDumpList(location_db')
                        ELSE locFile' = locFile]_vars

\* The list was written by add_location or update_location_db while the
\* dicts differ from what the checksum and phash files hold
C14_Witness ==
    /\ op \in {"add_location", "update_location_db"}
    /\ locFile = JsonDumpList(location_db)
    /\ location_db # <<>>
    /\ hash_db # LoadHashDb(hashFile)
    /\ phash_db # LoadPhashDb(phashFile)

\* C15: a checksum that has begun returns; the block held is never longer
\* than blocksize; the bytes hashed so far and the block held are the file
\* up to the position read, in order; what is returned is the digest of the
\* whole file, the digest of the empty string for an empty file, whatever
\* blocksize is.
C15_BlockStreaming ==
    /\ [](/\ Len(sum.buf) <= sum.blocksize
          /\ sum.pc = "test" =>
                /\ sum.fed \o sum.buf = SubSeq(sum.content, 1, sum.pos)
                /\ sum.hasher = update(HashStart, sum.fed)
          /\ sum.pc = "done" =>
                /\ sum.fed = sum.content
                /\ sum.digest = Sha256(sum.content)
                /\ sum.content = <<>> => sum.digest = hexdigest(HashStart))
    /\ (sum.pc = "test") ~> (sum.pc = "done")

\* A file of three bytes or more was hashed in blocks of two: the last
\* block was shorter than blocksize or the file took several blocks
C15_Witness ==
    /\ sum.pc = "done"
    /\ Len(sum.content) >= 3
    /\ sum.blocksize = 2
    /\ sum.fed = sum.content
    /\ sum.digest = Sha256(sum.content)

\* C16: a write by the second Db leaves in the files its own two dicts and
\* nothing else, whatever the files held and whoever wrote it: every key of
\* the checksum file that the second Db does not hold is gone, and the
\* dicts of the first Db are as they were.  Nothing of the first Db is read
\* or kept, so what it wrote since the second was constructed is lost.
C16_OtherOverwrites ==
    [][(op' = "other.update_hash_db" \/
        (op' = "other.add_hash" /\ args'[3])) =>
            /\ hashFile' = JsonDumpDict(other'.hash_db)
            /\ phashFile' = PickleDump(other'.phash_db)
            /\ \A k \in DOMAIN LoadHashDb(hashFile) :
                    k \notin DOMAIN other'.hash_db =>
                        k \notin DOMAIN LoadHashDb(hashFile')
            /\ memory' = memory]_vars

\* The lost update: the second Db was constructed when the checksum file
\* did not hold k; the first Db then wrote k with the value it holds; the
\* second Db wrote, and the file does not hold k.
C16_Witness ==
    /\ op = "other.update_hash_db"
    /\ status = "ready"
    /\ \E k \in DOMAIN hash_db :
            /\ k \notin DOMAIN LoadHashDb(other.seen)
            /\ k \in DOMAIN LoadHashDb(other.overwrote)
            /\ LoadHashDb(other.overwrote)[k] = hash_db[k]
            /\ k \notin DOMAIN LoadHashDb(hashFile)

\* C17: at every statement inside update_hash_db, and where the process has
\* stopped inside it, the phash file is as update_hash_db found it unless
\* the checksum file holds the whole checksum dict: both files are as they
\* were found, or the checksum file is empty, partly written or written and
\* the phash file as found, or the checksum file is written and the phash
\* file empty, partly written or written.  No statement of update_hash_db
\* changes either dict, and stopping changes no file.
C17_ChecksumFileFirst ==
    /\ [](op \in {"persist", "crash"} =>
            \/ /\ hashFile = persist.oldHash
               /\ phashFile = persist.oldPhash
            \/ /\ hashFile \in {EmptyFile, Garbage, WrittenHashFile(hash_db)}
               /\ phashFile = persist.oldPhash
            \/ /\ hashFile = WrittenHashFile(hash_db)
               /\ phashFile \in {EmptyFile, Garbage,
                                 WrittenPhashFile(phash_db)})
    /\ [][op' \in {"persist", "crash"} =>
            /\ memory' = memory
            /\ op' = "crash" => disk' = disk]_vars

\* The process stopped between the two writes: the checksum file holds the
\* new checksum dict, the phash file the phash dict of before
C17_Witness ==
    /\ op = "crash"
    /\ persist.pc = "stopped"
    /\ hashFile = WrittenHashFile(hash_db)
    /\ hashFile # persist.oldHash
    /\ phashFile = persist.oldPhash
    /\ phashFile # WrittenPhashFile(phash_db)

====
